---- MODULE Spec2Model ----
(***************************************************************************)
(* Model of package watchserverfile (WatchServerFile.go): an http.Server   *)
(* whose handler is rebuilt by a user callback whenever a watched file is  *)
(* written.  Four kinds of task run concurrently:                          *)
(*   "main"   the caller of ListenAndServe (initial rebuild, bind, accept  *)
(*            loop of listenAndServe),                                     *)
(*   "coord"  the goroutine started by ListenAndServe (clear, rebuild,     *)
(*            signal, forever),                                            *)
(*   "watch"  the goroutine started by New running watchFile,              *)
(*   the serve cycles started by listenAndServe (ws.Serve(l)).             *)
(* The file system / fsnotify watcher is the environment.                  *)
(***************************************************************************)
EXTENDS Integers, Sequences, FiniteSets

\* ---------------------------------------------------------------- bounds
\* number of raw events (writes, other operations, errors) the watcher emits
MaxEvents == 3
\* the same under LiveSpec, where only writes and errors are emitted
MaxLiveEvents == 5

\* ------------------------------------------------------ program constants
\* make(chan string, 1) and make(chan struct{}, 1)
ChanCap == 1
\* fsnotify.Op bits
OpWrite == 2
OpChmod == 16

FileName == "file"
\* addresses a caller may pass to ListenAndServe
Addresses == {"", ":8080"}
\* raw operations the environment produces: a plain write, a write combined
\* with chmod, and some operations without the write bit
WriteOps == {OpWrite, OpWrite + OpChmod}
OtherOps == {OpChmod}

Tasks == {"main", "coord"}

\* the nil http.Handler / the not yet created listener
Nil == <<>>

\* http.Handler is an interface value of two words: a write of h that
\* overlaps a write or a read of nil can leave or show one word of each
Torn(h) == <<h[1], "torn">>

VARIABLES
    Addr,         \* ws.Addr
    ln,           \* the listener of listenAndServe: Nil or <<addr>>
    handler,      \* ws.Server.Handler: Nil or <<v>>, built from file content v
    ReloadFile,   \* ws.ReloadFile, buffered channel of capacity 1
    reloadServe,  \* ws.reloadServe, buffered channel of capacity 1 (its length)
    pc,           \* position of the tasks main, coord and watch
    held,         \* the event watchFile is about to send (local "event")
    Events,       \* watcher.Events: raw events not yet received by watchFile
    Errors,       \* watcher.Errors: errors not yet received by watchFile
    fileVersion,  \* content of the watched file = number of writes so far
    ret,          \* what ListenAndServe returned: "" while running
    serving,      \* the running ws.Serve(l) goroutines: the listener of each
    response,     \* handler the last dispatched request was served by
    log,          \* number of lines logged, per message
    hist          \* history of the run (never read by the program)

vars == <<Addr, ln, handler, ReloadFile, reloadServe, pc, held, Events, Errors,
          fileVersion, ret, serving, response, log, hist>>

\* event.Op&fsnotify.Write == fsnotify.Write
HasWrite(op) == (op \div OpWrite) % 2 = 1

\* addr := ws.Addr; if addr == "" { addr = ":http" }
DefaultAddr(a) == IF a = "" THEN ":http" ELSE a

\* ChangeEvent on ReloadFile: the file name; id tells the events apart
\* (0 is the name New puts on the channel, n > 0 the n-th write)
ChangeEvent(n) == [name |-> FileName, id |-> n]

\* --------------------------------------------------------------- New
Init ==
    /\ Addr = ""
    /\ ln = Nil
    /\ handler = Nil
    /\ ReloadFile = <<ChangeEvent(0)>>
    /\ reloadServe = 0
    /\ pc = [main |-> "start", coord |-> "idle", watch |-> "select"]
    /\ held = Nil
    /\ Events = <<>>
    /\ Errors = 0
    /\ fileVersion = 0
    /\ ret = ""
    /\ serving = <<>>
    /\ response = <<"none">>
    /\ log = [reload |-> 0, err |-> 0, serve |-> 0]
    /\ hist = [binds |-> 0, bindFailed |-> FALSE, failed |-> FALSE, spawned |-> 0, sigSent |-> 0, sigRecv |-> 0,
               invoked |-> [t \in Tasks |-> 0],
               returned |-> [t \in Tasks |-> 0],
               consumed |-> {}, initialBy |-> "", emittedBefore |-> {}, emitted |-> 0,
               lastInstall |-> Nil, afterErr |-> {}]

\* ------------------------------------------------------- environment
\* the file is written: its content changes and the watcher emits an event
\* whose operation includes Write.  With track, the history records which
\* earlier write events were still unread by every rebuild callback.
Written(op, track) ==
    /\ HasWrite(op)
    /\ fileVersion' = fileVersion + 1
    /\ Events' = Append(Events, [op |-> op, id |-> fileVersion + 1])
    /\ hist' = [hist EXCEPT
                 !.emittedBefore = IF track
                     THEN @ \cup {<<m, fileVersion + 1>> :
                                     m \in (1..fileVersion) \ hist.consumed}
                     ELSE @,
                 !.emitted = @ + 1,
                 !.afterErr = IF log.err > 0 THEN @ \cup {fileVersion + 1} ELSE @]
    /\ UNCHANGED <<Addr, ln, handler, ReloadFile, reloadServe, pc, held, Errors,
                   ret, serving, response, log>>

FileWrite(op) ==
    /\ hist.emitted < MaxEvents
    /\ Written(op, TRUE)

\* the watcher emits an event without the Write bit (rename, chmod, ...)
FileOther(op) ==
    /\ hist.emitted < MaxEvents
    /\ ~HasWrite(op)
    /\ Events' = Append(Events, [op |-> op, id |-> 0])
    /\ hist' = [hist EXCEPT !.emitted = @ + 1]
    /\ UNCHANGED <<Addr, ln, handler, ReloadFile, reloadServe, pc, held, Errors,
                   fileVersion, ret, serving, response, log>>

\* the watcher reports an internal error
Failed ==
    /\ Errors' = Errors + 1
    /\ hist' = [hist EXCEPT !.emitted = @ + 1]
    /\ UNCHANGED <<Addr, ln, handler, ReloadFile, reloadServe, pc, held, Events,
                   fileVersion, ret, serving, response, log>>

WatcherFails ==
    /\ hist.emitted < MaxEvents
    /\ Failed

\* ---------------------------------------------------------- watchFile
\* mutant: watchFile without the test of event.Op
WatchEventUnfiltered ==
    /\ pc.watch = "select"
    /\ Events # <<>>
    /\ Events' = Tail(Events)
    /\ log' = [log EXCEPT !.reload = @ + 1]
    /\ held' = <<ChangeEvent(Head(Events).id)>>
    /\ pc' = [pc EXCEPT !.watch = "send"]
    /\ UNCHANGED <<Addr, ln, handler, ReloadFile, reloadServe, Errors,
                   fileVersion, ret, serving, response, hist>>

\* case event := <-watcher.Events
WatchEvent ==
    /\ pc.watch = "select"
    /\ Events # <<>>
    /\ Events' = Tail(Events)
    /\ IF HasWrite(Head(Events).op)
       THEN /\ log' = [log EXCEPT !.reload = @ + 1]
            /\ held' = <<ChangeEvent(Head(Events).id)>>
            /\ pc' = [pc EXCEPT !.watch = "send"]
       ELSE UNCHANGED <<log, held, pc>>
    /\ UNCHANGED <<Addr, ln, handler, ReloadFile, reloadServe, Errors,
                   fileVersion, ret, serving, response, hist>>

\* mutant: a send that does not block (select with default): the event is
\* dropped when the channel is full
WatchSendDropping ==
    /\ pc.watch = "send"
    /\ ReloadFile' = IF Len(ReloadFile) < ChanCap
                     THEN Append(ReloadFile, held[1])
                     ELSE ReloadFile
    /\ held' = Nil
    /\ pc' = [pc EXCEPT !.watch = "select"]
    /\ UNCHANGED <<Addr, ln, handler, reloadServe, Events, Errors,
                   fileVersion, ret, serving, response, log, hist>>

\* ws.ReloadFile <- event.Name   (blocks while the channel is full)
WatchSend ==
    /\ pc.watch = "send"
    /\ Len(ReloadFile) < ChanCap
    /\ ReloadFile' = Append(ReloadFile, held[1])
    /\ held' = Nil
    /\ pc' = [pc EXCEPT !.watch = "select"]
    /\ UNCHANGED <<Addr, ln, handler, reloadServe, Events, Errors,
                   fileVersion, ret, serving, response, log, hist>>

\* mutant: the watch loop returns after logging the error
WatchErrorReturns ==
    /\ pc.watch = "select"
    /\ Errors > 0
    /\ Errors' = Errors - 1
    /\ log' = [log EXCEPT !.err = @ + 1]
    /\ pc' = [pc EXCEPT !.watch = "returned"]
    /\ UNCHANGED <<Addr, ln, handler, ReloadFile, reloadServe, held, Events,
                   fileVersion, ret, serving, response, hist>>

\* case err := <-watcher.Errors
WatchError ==
    /\ pc.watch = "select"
    /\ Errors > 0
    /\ Errors' = Errors - 1
    /\ log' = [log EXCEPT !.err = @ + 1]
    /\ UNCHANGED <<Addr, ln, handler, ReloadFile, reloadServe, pc, held, Events,
                   fileVersion, ret, serving, response, hist>>

\* ------------------------------------------------------------ Handler
\* ws.Server.Handler = handler
Handler(h) == handler' = h

\* ----------------------------------------------- the rebuild callback
\* The callback a caller passes to ListenAndServe, run by task t: it blocks
\* reading one event from ReloadFile ...
RebuildRecv(t) ==
    /\ pc[t] = "reload"
    /\ ReloadFile # <<>>
    /\ ReloadFile' = Tail(ReloadFile)
    /\ pc' = [pc EXCEPT ![t] = "install"]
    /\ hist' = [hist EXCEPT !.consumed = @ \cup {Head(ReloadFile).id},
                            !.initialBy = IF Head(ReloadFile).id = 0 THEN t ELSE @]
    /\ UNCHANGED <<Addr, ln, handler, reloadServe, held, Events, Errors,
                   fileVersion, ret, serving, response, log>>

\* ... then builds a handler from the content of the file and installs it,
\* or fails to build one and installs nothing, and returns
RebuildInstall(t, ok) ==
    /\ pc[t] = "install"
    /\ IF ok THEN Handler(<<fileVersion>>) ELSE UNCHANGED handler
    /\ pc' = [pc EXCEPT ![t] = IF t = "main" THEN "listen" ELSE "send"]
    /\ hist' = [hist EXCEPT !.returned[t] = @ + 1,
                            !.failed = @ \/ ~ok,
                            !.lastInstall = IF t = "coord"
                                            THEN (IF ok THEN <<fileVersion>> ELSE Nil)
                                            ELSE @]
    /\ UNCHANGED <<Addr, ln, ReloadFile, reloadServe, held, Events, Errors,
                   fileVersion, ret, serving, response, log>>

\* ----------------------------------------------------- ListenAndServe
\* mutant: ListenAndServe without the initial ws.reloadFunc(ws)
ListenAndServeNoInitial(address) ==
    /\ pc.main = "start"
    /\ Addr' = address
    /\ pc' = [pc EXCEPT !.main = "listen", !.coord = "clear"]
    /\ UNCHANGED <<ln, handler, ReloadFile, reloadServe, held, Events, Errors,
                   fileVersion, ret, serving, response, log, hist>>

\* ws.Addr = address; ws.reloadFunc = reloadFunc; go func() {...}();
\* ws.reloadFunc(ws)
ListenAndServe(address) ==
    /\ pc.main = "start"
    /\ Addr' = address
    /\ pc' = [pc EXCEPT !.main = "reload", !.coord = "clear"]
    /\ hist' = [hist EXCEPT !.invoked["main"] = @ + 1]
    /\ UNCHANGED <<ln, handler, ReloadFile, reloadServe, held, Events, Errors,
                   fileVersion, ret, serving, response, log>>

\* the goroutine of ListenAndServe: ws.Handler(nil); ws.reloadFunc(ws)
CoordClear ==
    /\ pc.coord = "clear"
    /\ Handler(Nil)
    /\ pc' = [pc EXCEPT !.coord = "reload"]
    /\ hist' = [hist EXCEPT !.invoked["coord"] = @ + 1]
    /\ UNCHANGED <<Addr, ln, ReloadFile, reloadServe, held, Events, Errors,
                   fileVersion, ret, serving, response, log>>

\* ws.Handler(nil) of the goroutine and ws.Handler(h) of the initial rebuild on
\* the caller's task are not synchronised: when they overlap (a data race) the
\* field ends as either value or as one word of each
RacingWrites ==
    /\ pc.coord = "clear"
    /\ pc.main = "install"
    /\ \E h \in {Nil, <<fileVersion>>, Torn(<<fileVersion>>)} : Handler(h)
    /\ pc' = [pc EXCEPT !.coord = "reload", !.main = "listen"]
    /\ hist' = [hist EXCEPT !.invoked["coord"] = @ + 1,
                            !.returned["main"] = @ + 1]
    /\ UNCHANGED <<Addr, ln, ReloadFile, reloadServe, held, Events, Errors,
                   fileVersion, ret, serving, response, log>>

\* mutant: a send that does not block (select with default): the signal is
\* dropped when the channel is full
CoordSignalDropping ==
    /\ pc.coord = "send"
    /\ reloadServe' = IF reloadServe < ChanCap THEN reloadServe + 1 ELSE reloadServe
    /\ pc' = [pc EXCEPT !.coord = "clear"]
    /\ hist' = [hist EXCEPT !.sigSent = @ + 1]
    /\ UNCHANGED <<Addr, ln, handler, ReloadFile, held, Events, Errors,
                   fileVersion, ret, serving, response, log>>

\* mutant: the goroutine signals only when the rebuild left a handler
CoordSignalIfInstalled ==
    /\ pc.coord = "send"
    /\ handler = Nil \/ reloadServe < ChanCap
    /\ reloadServe' = IF handler = Nil THEN reloadServe ELSE reloadServe + 1
    /\ pc' = [pc EXCEPT !.coord = "clear"]
    /\ hist' = [hist EXCEPT !.sigSent = IF handler = Nil THEN @ ELSE @ + 1]
    /\ UNCHANGED <<Addr, ln, handler, ReloadFile, held, Events, Errors,
                   fileVersion, ret, serving, response, log>>

\* ws.reloadServe <- struct{}{}   (blocks while the channel is full)
CoordSignal ==
    /\ pc.coord = "send"
    /\ reloadServe < ChanCap
    /\ reloadServe' = reloadServe + 1
    /\ pc' = [pc EXCEPT !.coord = "clear"]
    /\ hist' = [hist EXCEPT !.sigSent = @ + 1]
    /\ UNCHANGED <<Addr, ln, handler, ReloadFile, held, Events, Errors,
                   fileVersion, ret, serving, response, log>>

\* ----------------------------------------------------- listenAndServe
\* mutant: the error of net.Listen is not checked
ListenIgnoringError(ok) ==
    /\ pc.main = "listen"
    /\ pc' = [pc EXCEPT !.main = "spawn"]
    /\ IF ok
       THEN /\ ln' = <<DefaultAddr(Addr)>>
            /\ hist' = [hist EXCEPT !.binds = @ + 1]
       ELSE /\ hist' = [hist EXCEPT !.bindFailed = TRUE]
            /\ UNCHANGED ln
    /\ UNCHANGED <<Addr, handler, ReloadFile, reloadServe, held, Events, Errors,
                   fileVersion, ret, serving, response, log>>

\* ln, err := net.Listen("tcp", addr); if err != nil { return err }
Listen(ok) ==
    /\ pc.main = "listen"
    /\ IF ok
       THEN /\ ln' = <<DefaultAddr(Addr)>>
            /\ pc' = [pc EXCEPT !.main = "spawn"]
            /\ hist' = [hist EXCEPT !.binds = @ + 1]
            /\ UNCHANGED ret
       ELSE /\ ret' = "BindError"
            /\ pc' = [pc EXCEPT !.main = "returned"]
            /\ hist' = [hist EXCEPT !.bindFailed = TRUE]
            /\ UNCHANGED ln
    /\ UNCHANGED <<Addr, handler, ReloadFile, reloadServe, held, Events, Errors,
                   fileVersion, serving, response, log>>

\* defer l.Close(); go func(l) { log.Println(...); ws.Serve(l) }(l)
Spawn ==
    /\ pc.main = "spawn"
    /\ serving' = Append(serving, ln)
    /\ log' = [log EXCEPT !.serve = @ + 1]
    /\ pc' = [pc EXCEPT !.main = "wait"]
    /\ hist' = [hist EXCEPT !.spawned = @ + 1]
    /\ UNCHANGED <<Addr, ln, handler, ReloadFile, reloadServe, held, Events,
                   Errors, fileVersion, ret, response>>

\* mutant: a receive that does not block (select with default)
AwaitSignalNonBlocking ==
    /\ pc.main = "wait"
    /\ reloadServe' = IF reloadServe > 0 THEN reloadServe - 1 ELSE 0
    /\ pc' = [pc EXCEPT !.main = "spawn"]
    /\ hist' = [hist EXCEPT !.sigRecv = IF reloadServe > 0 THEN @ + 1 ELSE @]
    /\ UNCHANGED <<Addr, ln, handler, ReloadFile, held, Events, Errors,
                   fileVersion, ret, serving, response, log>>

\* mutant: the loop of listenAndServe encloses net.Listen
AwaitSignalRebinding ==
    /\ pc.main = "wait"
    /\ reloadServe > 0
    /\ reloadServe' = reloadServe - 1
    /\ pc' = [pc EXCEPT !.main = "listen"]
    /\ hist' = [hist EXCEPT !.sigRecv = @ + 1]
    /\ UNCHANGED <<Addr, ln, handler, ReloadFile, held, Events, Errors,
                   fileVersion, ret, serving, response, log>>

\* mutant: the signal makes the loop close the listener
AwaitSignalClosing ==
    /\ pc.main = "wait"
    /\ reloadServe > 0
    /\ reloadServe' = reloadServe - 1
    /\ ln' = Nil
    /\ pc' = [pc EXCEPT !.main = "spawn"]
    /\ hist' = [hist EXCEPT !.sigRecv = @ + 1]
    /\ UNCHANGED <<Addr, handler, ReloadFile, held, Events, Errors,
                   fileVersion, ret, serving, response, log>>

\* mutant: the loop of listenAndServe ends after the signal, returning nil
AwaitSignalReturning ==
    /\ pc.main = "wait"
    /\ reloadServe > 0
    /\ reloadServe' = reloadServe - 1
    /\ pc' = [pc EXCEPT !.main = "returned"]
    /\ hist' = [hist EXCEPT !.sigRecv = @ + 1]
    /\ UNCHANGED <<Addr, ln, handler, ReloadFile, held, Events, Errors,
                   fileVersion, ret, serving, response, log>>

\* <-ws.reloadServe
AwaitSignal ==
    /\ pc.main = "wait"
    /\ reloadServe > 0
    /\ reloadServe' = reloadServe - 1
    /\ pc' = [pc EXCEPT !.main = "spawn"]
    /\ hist' = [hist EXCEPT !.sigRecv = @ + 1]
    /\ UNCHANGED <<Addr, ln, handler, ReloadFile, held, Events, Errors,
                   fileVersion, ret, serving, response, log>>

\* what a read of ws.Server.Handler can return: the field, or, when the read
\* overlaps an unsynchronised write between nil and a handler, one word of each
HandlerRead ==
    {handler}
    \cup (IF pc.coord = "clear" /\ handler # Nil /\ Len(handler) = 1
          THEN {Torn(handler)} ELSE {})
    \cup (IF pc.coord = "install" /\ handler = Nil
          THEN {Torn(<<fileVersion>>)} ELSE {})

\* ws.Serve(l): a running serve cycle accepts a connection on the listener
\* and dispatches its request to the handler it reads from the server
Serve ==
    /\ serving # <<>>
    /\ \E h \in HandlerRead : response' = <<"served", h>>
    /\ UNCHANGED <<Addr, ln, handler, ReloadFile, reloadServe, pc, held, Events,
                   Errors, fileVersion, ret, serving, log, hist>>

Next ==
    \/ \E op \in WriteOps : FileWrite(op)
    \/ \E op \in OtherOps : FileOther(op)
    \/ WatcherFails
    \/ WatchEvent
    \/ WatchSend
    \/ WatchError
    \/ \E t \in Tasks, ok \in BOOLEAN : RebuildInstall(t, ok)
    \/ \E t \in Tasks : RebuildRecv(t)
    \/ \E a \in Addresses : ListenAndServe(a)
    \/ CoordClear
    \/ RacingWrites
    \/ CoordSignal
    \/ \E ok \in BOOLEAN : Listen(ok)
    \/ Spawn
    \/ AwaitSignal
    \/ Serve

Spec == Init /\ [][Next]_vars

\* ------------------------------------------------- fair scheduling
\* Every task of the program that can take its next step eventually takes it
\* (the Go scheduler starves no runnable goroutine); the environment owes
\* nothing: the file need never be written, the watcher need never fail.
LiveWrite ==
    /\ hist.emitted < MaxLiveEvents
    /\ Written(OpWrite, FALSE)

LiveFails ==
    /\ hist.emitted < MaxLiveEvents
    /\ Failed

LiveNext ==
    \/ LiveWrite
    \/ LiveFails
    \/ WatchEvent
    \/ WatchSend
    \/ WatchError
    \/ \E t \in Tasks, ok \in BOOLEAN : RebuildInstall(t, ok)
    \/ \E t \in Tasks : RebuildRecv(t)
    \/ ListenAndServe(":8080")
    \/ CoordClear
    \/ CoordSignal
    \/ \E ok \in BOOLEAN : Listen(ok)
    \/ Spawn
    \/ AwaitSignal

\* the steps of the three tasks (the rebuild callback runs on its caller's);
\* LiveSpec takes the writes of the handler one at a time: no task's next
\* step depends on the value of the handler
MainTask ==
    \/ \E a \in Addresses : ListenAndServe(a)
    \/ RebuildRecv("main")
    \/ \E ok \in BOOLEAN : RebuildInstall("main", ok)
    \/ \E ok \in BOOLEAN : Listen(ok)
    \/ Spawn
    \/ AwaitSignal

CoordTask ==
    \/ CoordClear
    \/ RebuildRecv("coord")
    \/ \E ok \in BOOLEAN : RebuildInstall("coord", ok)
    \/ CoordSignal

WatchTask == WatchEvent \/ WatchSend \/ WatchError

Fairness == WF_vars(MainTask) /\ WF_vars(CoordTask) /\ WF_vars(WatchTask)

LiveSpec == Init /\ [][LiveNext]_vars /\ Fairness

(***************************************************************************)
(*                              Properties                                 *)
(***************************************************************************)

\* the coordinator goroutine is inside the rebuild callback
CoordRebuilding == pc.coord \in {"reload", "install"}

\* C1: no serve cycle is running while the handler is nil or while a rebuild
\* callback invoked by the coordinator loop has not yet installed its handler
\* (every rebuild so far having installed one).
C1_HandlerReadyWhileServing ==
    (serving # <<>> /\ ~hist.failed) => (handler # Nil /\ ~CoordRebuilding)

C3_SingleBind ==
    /\ hist.binds <= 1
    /\ ln # Nil <=> hist.binds = 1
    /\ \A i \in 1..Len(serving) : serving[i] = ln /\ ln # Nil

C3_Witness ==
    /\ Len(serving) = 3
    /\ hist.sigRecv = 2
    /\ hist.binds = 1

\* C4: ListenAndServe invokes the rebuild callback once on its caller's task,
\* whether or not the file was ever written, and no serve cycle is spawned
\* before that invocation has returned.
C4_InitialRebuild ==
    /\ hist.invoked["main"] <= 1
    /\ pc.main # "start" => hist.invoked["main"] = 1
    /\ hist.spawned > 0 => hist.returned["main"] = 1
    /\ pc.main \in {"listen", "spawn", "wait", "returned"} => hist.returned["main"] = 1

C4_Witness ==
    /\ hist.spawned = 1
    /\ hist.emitted = 0
    /\ hist.returned["main"] = 1

\* C5: at most one serve cycle is accepting connections on the listener.
C5_SingleServeCycle == Len(serving) <= 1

\* C6: once the coordinator loop has installed a handler and sent the
\* rendezvous signal, that handler stays installed until the coordinator
\* reads the next change event.
C6_HandlerPersists ==
    (/\ hist.lastInstall # Nil
     /\ hist.sigSent > 0
     /\ pc.coord \in {"clear", "reload"})
    => handler = hist.lastInstall

\* C7: when the bind fails, ListenAndServe has returned the error, nothing is
\* bound and no serve cycle exists, then and ever after.
C7_FatalBind ==
    hist.bindFailed =>
        /\ ret = "BindError"
        /\ pc.main = "returned"
        /\ ln = Nil
        /\ serving = <<>>
        /\ hist.spawned = 0

\* the bind failed and the coordinator loop, started before, ran on: it sent
\* one signal and is blocked sending the second
C7_Witness ==
    /\ hist.bindFailed
    /\ hist.sigSent = 1
    /\ pc.coord = "send"

\* where a write event is
InEvents(e) == \E i \in 1..Len(Events) : Events[i].id = e
InHeld(e) == held # Nil /\ held[1].id = e
InReloadFile(e) == \E i \in 1..Len(ReloadFile) : ReloadFile[i].id = e
Observed(e) == e \in hist.consumed
Places(e) ==
    (IF InEvents(e) THEN 1 ELSE 0) + (IF InHeld(e) THEN 1 ELSE 0)
    + (IF InReloadFile(e) THEN 1 ELSE 0) + (IF Observed(e) THEN 1 ELSE 0)

\* C8 (as claimed): ReloadFile holds at most one event, and of two write
\* events emitted before the first was read by a rebuild callback, at most one
\* is ever read by a rebuild callback.
C8_SecondEventLost ==
    /\ Len(ReloadFile) <= 1
    /\ \A p \in hist.emittedBefore : ~(Observed(p[1]) /\ Observed(p[2]))

\* C8 (amended): ReloadFile holds at most one event, and no write event is
\* lost: each one emitted is still with the watcher, held by watchFile at its
\* blocking send, on ReloadFile, or was read by a rebuild callback.
C8_NoEventLost ==
    /\ Len(ReloadFile) <= 1
    /\ \A e \in 1..fileVersion : Places(e) = 1

\* two write events emitted before the first was read, and both were read
C8_Witness ==
    \E p \in hist.emittedBefore : Observed(p[1]) /\ Observed(p[2])

\* the server has settled: bound, every event read, every task blocked
Settled ==
    /\ ln # Nil
    /\ Events = <<>>
    /\ Errors = 0
    /\ pc.watch = "select"
    /\ ReloadFile = <<>>
    /\ reloadServe = 0
    /\ pc.main = "wait"
    /\ pc.coord = "reload"

\* C9: after a burst of writes has settled, and the last rebuild of the
\* coordinator loop installed a handler built from the latest content, the
\* server holds that handler.
C9_SettledReflectsLatest ==
    (Settled /\ fileVersion >= 1 /\ hist.lastInstall = <<fileVersion>>)
    => handler = <<fileVersion>>

\* a change event is delivered once it is on ReloadFile or was read from it
Delivered(e) == InReloadFile(e) \/ Observed(e)

\* a step that logs a watcher error changes nothing but the log and the
\* error it took, and leaves the watch loop at its select
ErrorOnlyLogged ==
    [][log'.err # log.err =>
         /\ log'.err = log.err + 1
         /\ pc' = pc
         /\ UNCHANGED <<Addr, ln, handler, ReloadFile, reloadServe, held,
                        Events, fileVersion, ret, serving, response, hist>>]_vars

\* every write event emitted after a logged watcher error is delivered
AfterErrorDelivered == \A e \in hist.afterErr : Delivered(e)

C11_SingleWriter ==
    [][/\ ~(/\ hist'.invoked["coord"] # hist.invoked["coord"]
            /\ hist'.returned["main"] # hist.returned["main"])
       /\ ~(/\ hist.invoked["coord"] = 0
            /\ hist'.invoked["coord"] = 1
            /\ hist.returned["main"] = 1
            /\ handler # Nil)]_vars

\* C12: receiving the rendezvous signal leaves the listener as it is (open,
\* not bound again) and starts nothing by itself; the step after it starts
\* one serve cycle on that listener and the loop waits for the signal again.
C12_ListenerKept ==
    [][/\ hist'.sigRecv # hist.sigRecv =>
            /\ ln # Nil
            /\ ln' = ln
            /\ hist'.binds = hist.binds
            /\ serving' = serving
            /\ pc'.main = "spawn"
       /\ (pc.main = "spawn" /\ pc'.main # "spawn") =>
            /\ ln # Nil
            /\ ln' = ln
            /\ hist'.binds = hist.binds
            /\ serving' = Append(serving, ln)
            /\ pc'.main = "wait"]_vars

\* a signal was received, one serve cycle was started for it on the listener
\* and the loop waits again
C12_Witness ==
    /\ hist.sigRecv = 1
    /\ serving = <<ln, ln>>
    /\ ln # Nil
    /\ pc.main = "wait"

\* C13: ListenAndServe returns only with the error of the bind; once the
\* listener is bound the accept loop is at its spawn or at its wait, and
\* nothing was returned.
C13_RunsForever ==
    /\ pc.main = "returned" => (hist.bindFailed /\ ret = "BindError" /\ ln = Nil)
    /\ ret # "" => pc.main = "returned"
    /\ ln # Nil => (pc.main \in {"spawn", "wait"} /\ ret = "")

\* bound, two reloads served, waiting for the third signal
C13_Witness ==
    /\ ln # Nil
    /\ hist.spawned = 3
    /\ reloadServe = 0
    /\ pc.main = "wait"

\* C14: when the accept loop is about to spawn a serve cycle after a
\* rendezvous signal (every rebuild so far having installed a handler), the
\* handler is the non-nil one installed by the rebuild that produced the
\* signal: the coordinator loop has not started its next iteration.
C14_HandlerAtSpawn ==
    (/\ pc.main = "spawn"
     /\ hist.sigRecv >= 1
     /\ ~hist.failed)
    => /\ handler # Nil
       /\ handler = hist.lastInstall
       /\ hist.invoked["coord"] = hist.sigRecv

\* C15: signals are neither lost nor duplicated (each one sent is on the
\* channel or was received, one per returned rebuild of the coordinator
\* loop), each signal received starts one serve cycle: at its wait the accept
\* loop has spawned 1 + the number of signals received, and never more than
\* 1 + the number of coordinator-loop rebuilds that returned.
C15_OneCyclePerReload ==
    /\ hist.sigSent = hist.sigRecv + reloadServe
    /\ reloadServe <= ChanCap
    /\ hist.sigSent <= hist.returned["coord"]
    /\ hist.returned["coord"] <= hist.sigSent + 1
    /\ pc.main = "wait" => hist.spawned = 1 + hist.sigRecv
    /\ pc.main = "spawn" => hist.spawned = hist.sigRecv
    /\ pc.main \notin {"wait", "spawn"} => hist.spawned = 0 /\ hist.sigRecv = 0
    /\ hist.spawned <= 1 + hist.returned["coord"]
    /\ Len(serving) = hist.spawned

\* two reloads done: one signal received and its serve cycle spawned, the
\* other waiting on the channel
C15_Witness ==
    /\ hist.returned["coord"] = 2
    /\ hist.sigRecv = 1
    /\ reloadServe = 1
    /\ hist.spawned = 2
    /\ pc.main = "wait"

\* only the coordinator loop has written the handler since its last clear
CoordOnlyWriter == hist.returned["main"] = 0 \/ hist.invoked["coord"] >= 3

\* the last rebuild of the coordinator loop returned without a handler
CoordRebuildFailed == hist.returned["coord"] >= 1 /\ hist.lastInstall = Nil

Forwarded == {e \in 1..fileVersion : ~InEvents(e)}

\* C17: watchFile produces one ChangeEvent for each raw event it receives
\* whose operation includes Write, and for no other: every event it holds or
\* has put on ReloadFile is a write event of the file (the name New put there
\* aside), and receiving an event without the Write bit changes nothing but
\* the queue of raw events.
C17_WriteOnlyFilter ==
    /\ log.reload = Cardinality(Forwarded)
    /\ held # Nil => held[1].id \in 1..fileVersion
    /\ \A i \in 1..Len(ReloadFile) :
          \/ ReloadFile[i].id \in 1..fileVersion
          \/ ReloadFile[i].id = 0 /\ hist.initialBy = ""
    /\ \A e \in 1..fileVersion :
          (IF InHeld(e) THEN 1 ELSE 0) + (IF InReloadFile(e) THEN 1 ELSE 0)
          + (IF Observed(e) THEN 1 ELSE 0) = (IF e \in Forwarded THEN 1 ELSE 0)
    /\ pc.watch = "send" <=> held # Nil

\* one event with the Write bit and one without were received by watchFile:
\* one ChangeEvent was produced
C17_Witness ==
    /\ fileVersion = 1
    /\ hist.emitted = 2
    /\ Events = <<>>
    /\ Errors = 0
    /\ log.err = 0
    /\ log.reload = 1

\* C18: the file name New put on ReloadFile is read by the initial rebuild on
\* the caller's task, never by the coordinator loop.
C18_InitialNameToCaller ==
    hist.initialBy # "coord"

====
